---- MODULE Spec2Model ----
(***************************************************************************)
(* The PPG wavetable generators of drumlogue-units:                        *)
(*   drumlogue/vapo2/resources/generate_wavetables.py  (prog = "vapo2")    *)
(*   drumlogue/pepege-synth/resources/generate_ppg_waves.py ("pepege")     *)
(* A run reads ppg_data.c, extracts the flat value stream, and writes a    *)
(* generated source file.  Text is modelled structurally: a name is the    *)
(* sequence of its ASCII codes, the output file is the sequence of the     *)
(* pieces written to it, a float is an exact fraction [num, den].          *)
(***************************************************************************)
EXTENDS Integers, Sequences, FiniteSets, TLC

VARIABLES
    prog,             \* which script runs
    file,             \* ppg_data.c: [exists, decl, values]
    bank_selections,  \* BANK_SELECTIONS: ordered <<[name, indices], ...>>
    target_samples,   \* TARGET_SAMPLES as configured
    num_guard,        \* GUARD_SAMPLES as configured
    integrate,        \* the integrate argument of generate_wavetables_h
    pc,               \* position of the running script
    run,              \* 1 for the first run of the script, 2 for the second
    waveforms,        \* result of parse_ppg_waveforms / extract_waveforms
    header,           \* the header text's constants
    sections,         \* one entry per finished bank: its wave arrays
    bank_pointers,    \* one entry per finished bank: its pointer array
    master_array,     \* master bank table and bank-name table
    bank_idx,         \* enumerate(BANK_SELECTIONS.items()) position, 0-based
    slot,             \* enumerate(wave_indices) position i, 0-based
    section_lines,    \* wave arrays of the bank being built
    wave_names,       \* wave_names of the bank being built
    cur,              \* locals of the last loop iteration (raw, signed16, ...)
    warnings,         \* the "Warning: Wave ... not found" lines printed
    outfile,          \* pieces of the output file on disk, <<>> if none (persists)
    opened,           \* the current run has opened the output file
    error,            \* the exception that ended the run, or "none"
    prev_output       \* output file content after the first run

vars == <<prog, file, bank_selections, target_samples, num_guard, integrate,
          pc, run, waveforms, header, sections, bank_pointers, master_array,
          bank_idx, slot, section_lines, wave_names, cur, warnings, outfile,
          opened, error, prev_output>>

inputs == <<prog, file, bank_selections, target_samples, num_guard>>

(***************************************************************************)
(* Program constants                                                       *)
(***************************************************************************)
PPG_SAMPLES == 64
TARGET_SAMPLES == 256
GUARD_SAMPLES == 4
WAVES_PER_BANK == 8
\* literals of the header text
WT_TABLE_SIZE == 256
WT_WAVES_PER_BANK == 8
WT_GUARD == 4
\* np.clip(..., -32767, 32767)
CLIP_MAX == 32767
\* integrate_wave: 30000.0 / max_val
HEADROOM == 30000
\* generate_ppg_waves.py: row length
ROW_LEN == 8

(***************************************************************************)
(* Bounds of the model                                                     *)
(***************************************************************************)
MaxWaves == 8    \* largest number of complete waveforms in ppg_data.c
MaxBanks == 2    \* largest number of entries of BANK_SELECTIONS

Null == [none |-> TRUE]

Min(a, b) == IF a < b THEN a ELSE b
Max(a, b) == IF a > b THEN a ELSE b

RECURSIVE GCD(_, _)
GCD(a, b) == IF b = 0 THEN a ELSE GCD(b, a % b)

\* Python list indexing seq[idx]: negative idx counts from the end
PyIndexOK(seq, idx) == idx >= -Len(seq) /\ idx < Len(seq)
PyIndex(seq, idx) == IF idx >= 0 THEN seq[idx + 1] ELSE seq[Len(seq) + idx + 1]
\* Python slice seq[:n] for n >= 0
PyPrefix(seq, n) == SubSeq(seq, 1, Min(n, Len(seq)))

\* str.lower() on ASCII codes
lower(name) == [k \in 1..Len(name) |->
                  IF name[k] >= 65 /\ name[k] <= 90 THEN name[k] + 32 ELSE name[k]]

(***************************************************************************)
(* parse_ppg_waveforms / extract_waveforms                                 *)
(***************************************************************************)
\* np.array(..., dtype=np.uint8)
to_uint8(chunk) == [k \in 1..Len(chunk) |-> chunk[k] % 256]

\* faulty variant: the check of the chunk's length is left out
split_waveforms_keep_partial(values) ==
    LET n == Len(values)
    IN [k \in 1..((n + PPG_SAMPLES - 1) \div PPG_SAMPLES) |->
          to_uint8(SubSeq(values, (k - 1) * PPG_SAMPLES + 1, Min(k * PPG_SAMPLES, n)))]

\* for i in range(0, len(values), PPG_SAMPLES): if i + PPG_SAMPLES <= len(values)
split_waveforms(values) ==
    LET n == Len(values)
        starts == [k \in 1..((n + PPG_SAMPLES - 1) \div PPG_SAMPLES) |->
                     (k - 1) * PPG_SAMPLES]
        kept == SelectSeq(starts, LAMBDA i : i + PPG_SAMPLES <= n)
    IN [k \in 1..Len(kept) |->
          to_uint8(SubSeq(values, kept[k] + 1, Min(kept[k] + PPG_SAMPLES, n)))]

(***************************************************************************)
(* Inputs                                                                  *)
(***************************************************************************)
\* the numeric tokens of the array body: value j (0-based) of the stream
StreamValue(j) == (37 * j + 11 * (j \div PPG_SAMPLES)) % 256
Stream(n) == [j \in 1..n |-> StreamValue(j - 1)]
StreamLengths == {q * PPG_SAMPLES + r : q \in {0, 1, MaxWaves}, r \in {0, PPG_SAMPLES - 1}}

Files == {[exists |-> FALSE, decl |-> FALSE, values |-> <<>>],
          [exists |-> TRUE, decl |-> FALSE, values |-> <<>>]}
         \cup {[exists |-> TRUE, decl |-> TRUE, values |-> Stream(n)] : n \in StreamLengths}

\* bank names as ASCII codes
N_UPPER_WT == <<85, 80, 80, 69, 82, 95, 87, 84>>
N_Mixed == <<77, 105, 120, 101, 100>>
N_SHORT == <<83, 72, 79, 82, 84>>
N_Bad == <<66, 97, 100>>
N_EMPTY == <<69, 77, 80, 84, 89>>

\* entries a BANK_SELECTIONS may hold: the first of the repository, and
\* entries with unsorted, repeated, too large and negative indices, a short
\* list, an index below -len(waveforms), and an empty list
Catalogue ==
    {[name |-> N_UPPER_WT, indices |-> <<0, 1, 2, 3, 4, 5, 6, 7>>],
     [name |-> N_Mixed, indices |-> <<3, 1, 1, 999, -1, 2, 0, 5>>],
     [name |-> N_SHORT, indices |-> <<1, 0>>],
     [name |-> N_Bad, indices |-> <<0, -40>>],
     [name |-> N_EMPTY, indices |-> <<>>]}

\* a dict: ordered, keys distinct
Configs == UNION {{c \in [1..n -> Catalogue] :
                     \A p, q \in 1..n : p /= q => c[p].name /= c[q].name}
                  : n \in 0..MaxBanks}

TargetChoices == {TARGET_SAMPLES, TARGET_SAMPLES \div 2}
GuardChoices == {GUARD_SAMPLES, GUARD_SAMPLES \div 2}

(***************************************************************************)
(* Per-wave pipeline: convert, interpolate, clip, guard                    *)
(***************************************************************************)
\* a float64 value, kept exact: num / den with den > 0
Frac(n) == [num |-> n, den |-> 1]

\* np.clip(x, lo, hi) on one value
clip(x, lo, hi) ==
    IF x.num < lo * x.den THEN Frac(lo)
    ELSE IF x.num > hi * x.den THEN Frac(hi)
    ELSE x

\* .astype(np.int16) on one float: truncate toward zero, keep 16 bits
astype_int16(x) ==
    LET t == IF x.num >= 0 THEN x.num \div x.den ELSE -((-x.num) \div x.den)
    IN ((t + 32768) % 65536) - 32768

\* faulty variant: clipped to the full int16 range
convert_full_range(wave) ==
    [k \in 1..Len(wave) |->
        astype_int16(clip(Frac((wave[k] - 128) * 256), -CLIP_MAX - 1, CLIP_MAX))]

\* signed = (wave.astype(np.float64) - 128.0) * 256.0
\* return np.clip(signed, -32767, 32767).astype(np.int16)
convert_to_signed16(wave) ==
    [k \in 1..Len(wave) |->
        astype_int16(clip(Frac((wave[k] - 128) * 256), -CLIP_MAX, CLIP_MAX))]

\* The cubic through four consecutive knots y0..y3, evaluated between y1 and
\* y2 at the fraction a/d of the knot spacing.  It passes through the knots
\* (a = 0 gives y1); between knots it stands for the value of scipy's cubic
\* spline, which no property below reads.  scipy's float result at a knot
\* may be off by a rounding error, so a truncated sample by 1.
cubic_segment(y0, y1, y2, y3, a, d) ==
    [num |-> 2 * y1 * d * d * d
             + (y2 - y0) * a * d * d
             + (2 * y0 - 5 * y1 + 4 * y2 - y3) * a * a * d
             + (3 * y1 - y0 - 3 * y2 + y3) * a * a * a,
     den |-> 2 * d * d * d]

\* faulty variant: the wave is extended with its last samples, wave[-4:]
wave_extended_from_tail(wave) ==
    wave \o SubSeq(wave, Len(wave) - Min(4, Len(wave)) + 1, Len(wave))

\* wave_extended = np.concatenate([wave, wave[:4]])
wave_extended(wave) == wave \o PyPrefix(wave, 4)

\* x_extended = np.concatenate([x_old, x_old[:4] + 1.0]), in units of 1/len(wave)
x_extended(wave) ==
    LET L == Len(wave)
    IN [k \in 1..L |-> k - 1] \o [k \in 1..Min(4, L) |-> (k - 1) + L]

\* f = interp1d(x_extended, wave_extended, kind='cubic'); f(i / target)
\* with y = wave_extended and the knots x_extended[k] = k / len(wave)
interp1d_at(y, L, i, target) ==
    LET seg == (i * L) \div target          \* knot at or before the phase
        a == (i * L) % target
        g == GCD(target, a)
        last == Len(y) - 1
    IN cubic_segment(y[Max(Min(seg - 1, last), 0) + 1], y[Min(seg, last) + 1],
                     y[Min(seg + 1, last) + 1], y[Min(seg + 2, last) + 1],
                     a \div g, target \div g)

\* x_new = np.linspace(0, 1, target_samples, endpoint=False); return f(x_new)
interpolate_wave(wave, target) ==
    LET y == wave_extended(wave)
        L == Len(wave)
    IN [k \in 1..target |-> interp1d_at(y, L, k - 1, target)]

\* processed = np.clip(interpolated, -32767, 32767).astype(np.int16)
clip_to_int16(interpolated) ==
    [k \in 1..Len(interpolated) |->
        astype_int16(clip(interpolated[k], -CLIP_MAX, CLIP_MAX))]

(***************************************************************************)
(* integrate_wave.  A float64 here is whole + num/den with 0 <= num < den, *)
(* in lowest terms, so that sums of 16-bit samples over a whole wave and   *)
(* their products with an index stay below 2^31.                           *)
(***************************************************************************)
Mixed(w, n, d) ==
    LET g == GCD(d, n % d)
    IN [whole |-> w + (n \div d), num |-> (n % d) \div g, den |-> d \div g]

Zero == Mixed(0, 0, 1)

\* wave.astype(np.float64) on one sample
to_mixed(x) == Mixed(0, x.num, x.den)

mixed_add(a, b) ==
    LET g == GCD(a.den, b.den)
    IN Mixed(a.whole + b.whole,
             a.num * (b.den \div g) + b.num * (a.den \div g),
             (a.den \div g) * b.den)

mixed_sub(a, b) ==
    LET g == GCD(a.den, b.den)
    IN Mixed(a.whole - b.whole,
             a.num * (b.den \div g) - b.num * (a.den \div g),
             (a.den \div g) * b.den)

mixed_abs(a) == IF a.whole >= 0 THEN a ELSE Mixed(-a.whole, -a.num, a.den)

mixed_less(a, b) ==
    \/ a.whole < b.whole
    \/ a.whole = b.whole /\ a.num * b.den < b.num * a.den

\* x * i / m for 0 <= i <= m
mixed_scaled(x, i, m) ==
    Mixed((x.whole \div m) * i, ((x.whole % m) * x.den + x.num) * i, x.den * m)

\* the running sums of wave[lo..hi] on top of base; the range is halved so
\* that the evaluation stays shallow, the sums are those of a left-to-right
\* pass because the arithmetic is exact
RECURSIVE cumsum_from(_, _, _, _)
cumsum_from(wave, lo, hi, base) ==
    IF lo > hi THEN <<>>
    ELSE IF lo = hi THEN <<mixed_add(base, to_mixed(wave[lo]))>>
    ELSE LET mid == (lo + hi) \div 2
             left == cumsum_from(wave, lo, mid, base)
         IN left \o cumsum_from(wave, mid + 1, hi, left[Len(left)])

\* np.cumsum(wave.astype(np.float64))
cumsum(wave) == cumsum_from(wave, 1, Len(wave), Zero)

\* np.linspace(start, stop, n): n evenly spaced values, the first is start
\* and the last is set to stop
linspace(start, stop, n) ==
    [k \in 1..n |->
        IF k = 1 THEN start
        ELSE IF k = n THEN stop
        ELSE mixed_add(start, mixed_scaled(mixed_sub(stop, start), k - 1, n - 1))]

\* faulty variant: the ramp starts at the first cumulative value
dc_ramp_from_first(integrated) ==
    linspace(integrated[1], integrated[Len(integrated)], Len(integrated))

\* dc_ramp = np.linspace(0, integrated[-1], n)
dc_ramp(integrated) ==
    linspace(Zero, integrated[Len(integrated)], Len(integrated))

RECURSIVE max_abs_from(_, _, _)
max_abs_from(seq, lo, hi) ==
    IF lo > hi THEN Zero
    ELSE IF lo = hi THEN mixed_abs(seq[lo])
    ELSE LET mid == (lo + hi) \div 2
             a == max_abs_from(seq, lo, mid)
             b == max_abs_from(seq, mid + 1, hi)
         IN IF mixed_less(a, b) THEN b ELSE a

\* np.max(np.abs(integrated))
max_abs(seq) == max_abs_from(seq, 1, Len(seq))

\* one step of q + r/m times k, kept as quotient and remainder by m
scale_step(qr, k, m) ==
    [q |-> qr.q * k + ((qr.r * k) \div m), r |-> (qr.r * k) % m]

RECURSIVE scale_by(_, _, _)
scale_by(qr, k, m) ==
    IF k > 10 /\ k % 10 = 0
    THEN scale_by(scale_step(qr, 10, m), k \div 10, m)
    ELSE scale_step(qr, k, m)

\* integrated * (30000.0 / max_val) on one value, when max_val > 0.  The
\* value is taken down and max_val up to a whole number before the
\* division, which stands for the rounding of the float64 product; the
\* result is the whole part, the sign kept.
normalised(x, max_val) ==
    LET a == mixed_abs(x)
        m == max_val.whole + (IF max_val.num > 0 THEN 1 ELSE 0)
        t == scale_by([q |-> a.whole \div m, r |-> a.whole % m], HEADROOM, m).q
    IN Frac(IF x.whole >= 0 THEN t ELSE -t)

\* the local values of integrate_wave, in the order the code computes them
integrate_steps(wave) ==
    LET summed == cumsum(wave)
        ramp == dc_ramp(summed)
        detrended == [k \in 1..Len(summed) |-> mixed_sub(summed[k], ramp[k])]
        max_val == max_abs(detrended)
        scaled == [k \in 1..Len(detrended) |->
                      IF mixed_less(Zero, max_val)
                      THEN normalised(detrended[k], max_val)
                      ELSE [num |-> detrended[k].whole * detrended[k].den
                                    + detrended[k].num,
                            den |-> detrended[k].den]]
    IN [cumsum |-> summed, dc_ramp |-> ramp, detrended |-> detrended,
        max_val |-> max_val,
        result |-> [k \in 1..Len(scaled) |->
                      astype_int16(clip(scaled[k], -CLIP_MAX, CLIP_MAX))]]

integrate_wave(wave) == integrate_steps(wave).result

\* faulty variant: the guard is taken from the end of the wave, wave[-num_guard:]
add_guard_from_tail(wave, guard) ==
    wave \o SubSeq(wave, Len(wave) - Min(guard, Len(wave)) + 1, Len(wave))

\* faulty variant: the guard starts one sample late, wave[1:num_guard + 1]
add_guard_shifted(wave, guard) == wave \o SubSeq(wave, 2, Min(guard + 1, Len(wave)))

\* np.concatenate([wave, wave[:num_guard]])
add_guard_samples(wave, guard) == wave \o PyPrefix(wave, guard)

\* wave_name = f"wt_{bank_name.lower()}_{i}"
wave_name_of(bank_name, i) == [prefix |-> "wt_", bank |-> lower(bank_name), i |-> i]

\* bank_ptr_name = f"wavetable_bank_{bank_name.lower()}"
bank_ptr_name_of(bank_name) == [prefix |-> "wavetable_bank_", bank |-> lower(bank_name)]

\* faulty variant: the guard entry is left out
ptr_lines_no_guard(names) == names

\* ptr_lines: every wave name, then wave_names[0] as the guard entry
ptr_lines(names) == names \o <<names[1]>>

\* faulty variant: the master table lists the banks in reverse
bank_ptr_names_reversed(selections) ==
    [p \in 1..Len(selections) |->
        bank_ptr_name_of(selections[Len(selections) - p + 1].name)]

\* bank_ptr_names = [f"wavetable_bank_{name.lower()}" for name in BANK_SELECTIONS.keys()]
bank_ptr_names(selections) ==
    [p \in 1..Len(selections) |-> bank_ptr_name_of(selections[p].name)]

\* bank_names_quoted = [f'    "{name}"' for name in BANK_SELECTIONS.keys()]
bank_names_quoted(selections) == [p \in 1..Len(selections) |-> selections[p].name]

(***************************************************************************)
(* State after construction                                                *)
(***************************************************************************)
\* a fresh interpreter: every local is unset
Fresh ==
    /\ pc = "main"
    /\ waveforms = <<>>
    /\ header = Null
    /\ sections = <<>>
    /\ bank_pointers = <<>>
    /\ master_array = Null
    /\ bank_idx = 0
    /\ slot = 0
    /\ section_lines = <<>>
    /\ wave_names = <<>>
    /\ cur = Null
    /\ warnings = <<>>
    /\ opened = FALSE
    /\ error = "none"
    /\ integrate = FALSE

Init ==
    /\ prog \in {"vapo2", "pepege"}
    /\ file \in Files
    /\ IF prog = "vapo2" /\ file.exists /\ file.decl
       THEN /\ bank_selections \in Configs
            /\ target_samples \in TargetChoices
            /\ num_guard \in GuardChoices
       ELSE /\ bank_selections = <<>>
            /\ target_samples = TARGET_SAMPLES
            /\ num_guard = GUARD_SAMPLES
    /\ run = 1
    /\ outfile = <<>>
    /\ prev_output = <<>>
    /\ Fresh

(***************************************************************************)
(* generate_wavetables.py                                                  *)
(***************************************************************************)
\* the variables a step of the generation loop leaves alone
loop_unchanged == <<run, waveforms, header, master_array, outfile, opened,
                    prev_output, integrate>>

\* main(): the source file must exist
main ==
    /\ prog = "vapo2" /\ pc = "main"
    /\ pc' = IF file.exists THEN "parse" ELSE "exit1"
    /\ UNCHANGED <<inputs, integrate, run, waveforms, header, sections,
                   bank_pointers, master_array, bank_idx, slot, section_lines,
                   wave_names, cur, warnings, outfile, opened, error, prev_output>>

\* parse_ppg_waveforms(ppg_data_path)
parse_ppg_waveforms ==
    /\ prog = "vapo2" /\ pc = "parse"
    /\ IF ~file.decl
       THEN /\ error' = "ValueError"
            /\ pc' = "raised"
            /\ UNCHANGED waveforms
       ELSE /\ waveforms' = split_waveforms(file.values)
            /\ pc' = "header"
            /\ UNCHANGED error
    /\ UNCHANGED <<inputs, integrate, run, header, sections, bank_pointers,
                   master_array, bank_idx, slot, section_lines, wave_names, cur,
                   warnings, outfile, opened, prev_output>>

\* generate_wavetables_h: num_banks, bank_desc and the header text
header_text ==
    [table_size |-> WT_TABLE_SIZE,
     waves_per_bank |-> WT_WAVES_PER_BANK,
     num_banks |-> Len(bank_selections),
     samples_per_wave |-> WT_TABLE_SIZE + WT_GUARD,
     bank_desc |-> [p \in 1..Len(bank_selections) |->
                      [name |-> bank_selections[p].name,
                       first |-> PyIndex(bank_selections[p].indices, 0),
                       last |-> PyIndex(bank_selections[p].indices, -1)]]]

\* faulty variant: the output file is opened and the header written before the loop
build_header_writes_early ==
    /\ prog = "vapo2" /\ pc = "header"
    /\ IF \E p \in 1..Len(bank_selections) : bank_selections[p].indices = <<>>
       THEN /\ error' = "IndexError"
            /\ pc' = "raised"
            /\ UNCHANGED <<header, outfile, opened>>
       ELSE /\ header' = header_text
            /\ opened' = TRUE
            /\ outfile' = <<[kind |-> "header", body |-> header_text]>>
            /\ pc' = IF Len(bank_selections) = 0 THEN "master" ELSE "wave"
            /\ UNCHANGED error
    /\ UNCHANGED <<inputs, integrate, run, waveforms, sections, bank_pointers,
                   master_array, bank_idx, slot, section_lines, wave_names, cur,
                   warnings, prev_output>>

build_header ==
    /\ prog = "vapo2" /\ pc = "header"
    /\ IF \E p \in 1..Len(bank_selections) : bank_selections[p].indices = <<>>
       THEN /\ error' = "IndexError"       \* indices[0] of an empty list
            /\ pc' = "raised"
            /\ UNCHANGED header
       ELSE /\ header' = header_text
            /\ pc' = IF Len(bank_selections) = 0 THEN "master" ELSE "wave"
            /\ UNCHANGED error
    /\ UNCHANGED <<inputs, integrate, run, waveforms, sections, bank_pointers,
                   master_array, bank_idx, slot, section_lines, wave_names, cur,
                   warnings, outfile, opened, prev_output>>

\* if wave_idx >= len(waveforms): warn and use wave 0
resolve_index(wave_idx, n) == IF wave_idx >= n THEN 0 ELSE wave_idx

\* one iteration of "for i, wave_idx in enumerate(wave_indices)"
process_wave ==
    /\ prog = "vapo2" /\ pc = "wave"
    /\ LET entry == bank_selections[bank_idx + 1]
           configured == entry.indices[slot + 1]
           wave_idx == resolve_index(configured, Len(waveforms))
           warned == IF configured >= Len(waveforms)
                     THEN Append(warnings, [bank |-> bank_idx, i |-> slot,
                                            wave_idx |-> configured])
                     ELSE warnings
           lines == IF slot = 0 THEN <<>> ELSE section_lines
           names == IF slot = 0 THEN <<>> ELSE wave_names
       IN /\ warnings' = warned
          /\ IF ~PyIndexOK(waveforms, wave_idx)
             THEN /\ error' = "IndexError"  \* waveforms[wave_idx]
                  /\ pc' = "raised"
                  /\ UNCHANGED <<section_lines, wave_names, cur, slot>>
             ELSE LET raw == PyIndex(waveforms, wave_idx)
                      signed16 == convert_to_signed16(raw)
                      interpolated == interpolate_wave(signed16, target_samples)
                      steps == integrate_steps(interpolated)
                      processed == IF integrate THEN steps.result
                                   ELSE clip_to_int16(interpolated)
                      with_guard == add_guard_samples(processed, num_guard)
                      wave_name == wave_name_of(entry.name, slot)
                  IN /\ cur' = [bank |-> bank_idx, i |-> slot,
                                configured |-> configured, wave_idx |-> wave_idx,
                                raw |-> raw, signed16 |-> signed16,
                                x_extended |-> x_extended(signed16),
                                wave_extended |-> wave_extended(signed16),
                                interpolated |-> interpolated,
                                integral |-> IF integrate
                                             THEN [cumsum |-> steps.cumsum,
                                                   dc_ramp |-> steps.dc_ramp,
                                                   detrended |-> steps.detrended,
                                                   max_val |-> steps.max_val]
                                             ELSE Null,
                                processed |-> processed, with_guard |-> with_guard]
                     /\ wave_names' = Append(names, wave_name)
                     /\ section_lines' = Append(lines, [name |-> wave_name,
                                                        wave_idx |-> wave_idx,
                                                        samples |-> with_guard])
                     /\ slot' = slot + 1
                     /\ pc' = IF slot + 1 = Len(entry.indices) THEN "bank_end" ELSE "wave"
                     /\ UNCHANGED error
    /\ UNCHANGED <<inputs, loop_unchanged, sections, bank_pointers, bank_idx>>

\* end of one bank: sections.append, the bank pointer array
finish_bank ==
    /\ prog = "vapo2" /\ pc = "bank_end"
    /\ LET entry == bank_selections[bank_idx + 1]
       IN /\ sections' = Append(sections, [bank_idx |-> bank_idx,
                                           bank_name |-> entry.name,
                                           waves |-> section_lines])
          /\ bank_pointers' = Append(bank_pointers,
                                     [name |-> bank_ptr_name_of(entry.name),
                                      entries |-> ptr_lines(wave_names)])
    /\ bank_idx' = bank_idx + 1
    /\ slot' = 0
    /\ pc' = IF bank_idx + 1 = Len(bank_selections) THEN "master" ELSE "wave"
    /\ UNCHANGED <<inputs, loop_unchanged, section_lines, wave_names, cur,
                   warnings, error>>

\* master bank array and bank names
build_master ==
    /\ prog = "vapo2" /\ pc = "master"
    /\ master_array' = [banks |-> bank_ptr_names(bank_selections),
                        names |-> bank_names_quoted(bank_selections)]
    /\ pc' = "open"
    /\ UNCHANGED <<inputs, integrate, run, waveforms, header, sections,
                   bank_pointers, bank_idx, slot, section_lines, wave_names, cur,
                   warnings, outfile, opened, error, prev_output>>

write_unchanged == <<inputs, integrate, run, waveforms, header, sections,
                     bank_pointers, master_array, bank_idx, slot, section_lines,
                     wave_names, cur, warnings, error, prev_output>>

\* faulty variant: open(output_path, 'a') keeps the old content
opened_for_append(content) == content

\* open(output_path, 'w') truncates
opened_for_write(content) == <<>>

\* with open(output_path, 'w') as f: f.write(header)
open_output ==
    /\ prog = "vapo2" /\ pc = "open"
    /\ opened' = TRUE
    /\ outfile' = Append(opened_for_write(outfile), [kind |-> "header", body |-> header])
    /\ pc' = "write_sections"
    /\ UNCHANGED write_unchanged

\* for section in sections: f.write(section)
write_sections ==
    /\ prog = "vapo2" /\ pc = "write_sections"
    /\ outfile' = outfile \o [p \in 1..Len(sections) |->
                                [kind |-> "section", body |-> sections[p]]]
    /\ pc' = "write_pointers"
    /\ UNCHANGED <<write_unchanged, opened>>

\* for ptr in bank_pointers: f.write(ptr)
write_pointers ==
    /\ prog = "vapo2" /\ pc = "write_pointers"
    /\ outfile' = outfile \o [p \in 1..Len(bank_pointers) |->
                                [kind |-> "pointers", body |-> bank_pointers[p]]]
    /\ pc' = "write_master"
    /\ UNCHANGED <<write_unchanged, opened>>

\* f.write(master_array); the file is closed; main returns 0
write_master ==
    /\ prog = "vapo2" /\ pc = "write_master"
    /\ outfile' = Append(outfile, [kind |-> "master", body |-> master_array])
    /\ pc' = "done"
    /\ UNCHANGED <<write_unchanged, opened>>

(***************************************************************************)
(* generate_ppg_waves.py                                                   *)
(***************************************************************************)
pepege_main ==
    /\ prog = "pepege" /\ pc = "main"
    /\ pc' = IF file.exists THEN "extract" ELSE "exit1"
    /\ UNCHANGED <<inputs, integrate, run, waveforms, header, sections,
                   bank_pointers, master_array, bank_idx, slot, section_lines,
                   wave_names, cur, warnings, outfile, opened, error, prev_output>>

\* extract_waveforms returns the flat list of values
extract_waveforms ==
    /\ prog = "pepege" /\ pc = "extract"
    /\ IF ~file.decl
       THEN /\ error' = "ValueError"
            /\ pc' = "raised"
            /\ UNCHANGED waveforms
       ELSE /\ waveforms' = file.values
            /\ pc' = "generate_cpp"
            /\ UNCHANGED error
    /\ UNCHANGED <<inputs, integrate, run, header, sections, bank_pointers,
                   master_array, bank_idx, slot, section_lines, wave_names, cur,
                   warnings, outfile, opened, prev_output>>

\* Python slice seq[lo:hi] for 0 <= lo <= hi
PySlice(seq, lo, hi) == SubSeq(seq, Min(lo, Len(seq)) + 1, Min(hi, Len(seq)))

\* the rows of ppg_wave_data: num_waves waves of 8 rows of 8 values
cpp_rows(values) ==
    LET num_waves == Len(values) \div 64
    IN [r \in 1..(num_waves * ROW_LEN) |->
          LET wave_idx == (r - 1) \div ROW_LEN
              row == (r - 1) % ROW_LEN
              wave_data == PySlice(values, wave_idx * 64, wave_idx * 64 + 64)
          IN [wave_idx |-> wave_idx, row |-> row,
              values |-> PySlice(wave_data, row * ROW_LEN, (row + 1) * ROW_LEN),
              comma |-> (wave_idx < num_waves - 1 \/ row < 7)]]

generate_cpp ==
    /\ prog = "pepege" /\ pc = "generate_cpp"
    /\ opened' = TRUE
    /\ outfile' = Append(opened_for_write(outfile),
                         [kind |-> "ppg_waves", body |-> cpp_rows(waveforms)])
    /\ pc' = "done"
    /\ UNCHANGED write_unchanged

(***************************************************************************)
(* The script is run a second time on the same source and configuration    *)
(***************************************************************************)
Finished == pc \in {"done", "exit1", "raised"}

run_again ==
    /\ Finished /\ run = 1
    /\ run' = 2
    /\ prev_output' = outfile
    /\ pc' = "main"
    /\ waveforms' = <<>>
    /\ header' = Null
    /\ sections' = <<>>
    /\ bank_pointers' = <<>>
    /\ master_array' = Null
    /\ bank_idx' = 0
    /\ slot' = 0
    /\ section_lines' = <<>>
    /\ wave_names' = <<>>
    /\ cur' = Null
    /\ warnings' = <<>>
    /\ opened' = FALSE
    /\ error' = "none"
    /\ UNCHANGED <<inputs, integrate, outfile>>

Next ==
    \/ main
    \/ parse_ppg_waveforms
    \/ build_header
    \/ process_wave
    \/ finish_bank
    \/ build_master
    \/ open_output
    \/ write_sections
    \/ write_pointers
    \/ write_master
    \/ pepege_main
    \/ extract_waveforms
    \/ generate_cpp
    \/ run_again

Spec == Init /\ [][Next]_vars

(***************************************************************************)
(* generate_wavetables_h(waveforms, output_path, integrate=True): the      *)
(* generator with the integration mode switched on.                        *)
(***************************************************************************)
IntegrateConfigs == {c \in Configs : Len(c) <= 1}

InitIntegrate ==
    /\ prog = "vapo2"
    /\ file \in {f \in Files : f.exists /\ f.decl}
    /\ bank_selections \in IntegrateConfigs
    /\ target_samples \in TargetChoices
    /\ num_guard \in GuardChoices
    /\ run = 1
    /\ outfile = <<>>
    /\ prev_output = <<>>
    /\ pc = "main"
    /\ waveforms = <<>>
    /\ header = Null
    /\ sections = <<>>
    /\ bank_pointers = <<>>
    /\ master_array = Null
    /\ bank_idx = 0
    /\ slot = 0
    /\ section_lines = <<>>
    /\ wave_names = <<>>
    /\ cur = Null
    /\ warnings = <<>>
    /\ opened = FALSE
    /\ error = "none"
    /\ integrate = TRUE

NextIntegrate ==
    \/ main
    \/ parse_ppg_waveforms
    \/ build_header
    \/ process_wave
    \/ finish_bank
    \/ build_master
    \/ open_output
    \/ write_sections
    \/ write_pointers
    \/ write_master

SpecIntegrate == InitIntegrate /\ [][NextIntegrate]_vars

(***************************************************************************)
(* Properties                                                              *)
(***************************************************************************)
Vapo2 == prog = "vapo2"
NumWaveforms == Len(waveforms)
ValidIndex(idx) == idx >= 0 /\ idx < NumWaveforms
Warned(b, i) == \E w \in 1..Len(warnings) : warnings[w].bank = b /\ warnings[w].i = i
\* the run raised inside the wave loop
RaisedInLoop == Vapo2 /\ pc = "raised" /\ header /= Null
\* the pieces of one kind in the output file, in file order
Written(kind) == SelectSeq(outfile, LAMBDA piece : piece.kind = kind)
\* the guard samples and the leading samples of an emitted wave array
GuardOf(samples) == SubSeq(samples, target_samples + 1, Len(samples))
LeadOf(samples) == SubSeq(samples, 1, num_guard)

\* C1: every bank slot whose configured index is not a position 0..N-1 of
\* the extracted set (too large or negative, N possibly 0) is built from
\* waveform 0 with a warning, and no fatal error is raised for it.
C1_InvalidIndexUsesWaveZero ==
    /\ (Vapo2 /\ cur /= Null /\ ~ValidIndex(cur.configured))
          => /\ cur.wave_idx = 0
             /\ cur.raw = waveforms[1]
             /\ Warned(cur.bank, cur.i)
    /\ RaisedInLoop
          => ValidIndex(bank_selections[bank_idx + 1].indices[slot + 1])

\* C2: a run that ends in a fatal error, or returns 1, has not touched the
\* output file; once the file is opened every bank, pointer table, master
\* table and name table is already computed; a finished run leaves the file
\* complete.
C2_OutputAllOrNothing ==
    /\ (error /= "none" \/ pc = "exit1")
          => /\ ~opened
             /\ outfile = (IF run = 1 THEN <<>> ELSE prev_output)
    /\ (Vapo2 /\ opened)
          => /\ error = "none"
             /\ header /= Null
             /\ master_array /= Null
             /\ Len(sections) = Len(bank_selections)
             /\ Len(bank_pointers) = Len(bank_selections)
    /\ (Vapo2 /\ pc = "done")
          => outfile = <<[kind |-> "header", body |-> header]>>
                       \o [p \in 1..Len(sections) |->
                             [kind |-> "section", body |-> sections[p]]]
                       \o [p \in 1..Len(bank_pointers) |->
                             [kind |-> "pointers", body |-> bank_pointers[p]]]
                       \o <<[kind |-> "master", body |-> master_array]>>

C2_Witness ==
    /\ RaisedInLoop /\ error = "IndexError"
    /\ Len(sections) >= 1
    /\ outfile = <<>>

\* C3 as stated: in every bank the guard samples of member k are the leading
\* samples of member k+1, and those of the last member are the leading
\* samples of the first member.
C3_GuardIsNextMember ==
    \A b \in 1..Len(sections) :
       LET waves == sections[b].waves
       IN \A k \in 1..Len(waves) :
             GuardOf(waves[k].samples) = LeadOf(waves[(k % Len(waves)) + 1].samples)

\* C3 amended: in every bank the guard samples of every member, the last
\* included, are that member's own leading samples; the wrap to the first
\* member is the extra last entry of the bank's pointer array.
C3_GuardIsOwnStart ==
    /\ \A b \in 1..Len(sections) :
          \A k \in 1..Len(sections[b].waves) :
             LET samples == sections[b].waves[k].samples
             IN /\ Len(GuardOf(samples)) = num_guard
                /\ GuardOf(samples) = LeadOf(samples)
    /\ \A b \in 1..Len(bank_pointers) :
          LET entries == bank_pointers[b].entries
          IN entries[Len(entries)] = sections[b].waves[1].name

\* a finished bank in which a member and the next differ in their leading samples
C3_Witness ==
    \E b \in 1..Len(sections) :
       LET waves == sections[b].waves
       IN /\ Len(waves) >= 2
          /\ \A k \in 1..Len(waves) :
                LeadOf(waves[k].samples) /= LeadOf(waves[(k % Len(waves)) + 1].samples)

\* C4: in the written file the master bank table and the bank-name table
\* both have as many entries as BANK_SELECTIONS and as WT_NUM_BANKS says;
\* entry p of the master table names the pointer array built from the p-th
\* configuration entry, and entry p of the name table is that entry's name.
C4_BankTablesParallel ==
    (Vapo2 /\ pc = "done") =>
       LET master == Written("master")[1].body
           head == Written("header")[1].body
           pointers == Written("pointers")
           built == Written("section")
           n == Len(bank_selections)
       IN /\ Len(master.banks) = n
          /\ Len(master.names) = n
          /\ head.num_banks = n
          /\ Len(pointers) = n
          /\ Len(built) = n
          /\ \A p \in 1..n :
                /\ master.banks[p] = pointers[p].body.name
                /\ master.names[p] = bank_selections[p].name
                /\ built[p].body.bank_name = bank_selections[p].name
                /\ built[p].body.bank_idx = p - 1
                /\ \A k \in 1..Len(built[p].body.waves) :
                      /\ pointers[p].body.entries[k] = built[p].body.waves[k].name
                      /\ built[p].body.waves[k].name.bank = master.banks[p].bank

C4_Witness ==
    /\ Vapo2 /\ pc = "done"
    /\ Len(bank_selections) = MaxBanks
    /\ Len(Written("master")[1].body.banks) = MaxBanks
    /\ Written("master")[1].body.banks[1] /= Written("master")[1].body.banks[MaxBanks]

\* every list of BANK_SELECTIONS has WAVES_PER_BANK entries, as in the repository
FixedBankSize ==
    \A p \in 1..Len(bank_selections) : Len(bank_selections[p].indices) = WAVES_PER_BANK

Parsed == Vapo2 /\ pc \notin {"main", "parse", "exit1"} /\ error /= "ValueError"

\* C7: a stream of n values gives n \div PPG_SAMPLES waveforms of exactly
\* PPG_SAMPLES samples, waveform k holding values k*L .. k*L+L-1 in order;
\* a trailing partial chunk is dropped; generate_ppg_waves.py writes exactly
\* the first (n \div 64) * 64 values in order, 8 to a row.
C7_ChunksOfFixedLength ==
    /\ Parsed =>
          /\ Len(waveforms) = Len(file.values) \div PPG_SAMPLES
          /\ \A k \in 1..Len(waveforms) :
                /\ Len(waveforms[k]) = PPG_SAMPLES
                /\ \A j \in 1..PPG_SAMPLES :
                      waveforms[k][j] = file.values[(k - 1) * PPG_SAMPLES + j]
    /\ (prog = "pepege" /\ pc = "done") =>
          LET rows == outfile[1].body
              n == Len(file.values)
          IN /\ Len(outfile) = 1
             /\ Len(rows) * ROW_LEN = (n \div 64) * 64
             /\ \A r \in 1..Len(rows) :
                   /\ Len(rows[r].values) = ROW_LEN
                   /\ \A j \in 1..ROW_LEN :
                         rows[r].values[j] = file.values[(r - 1) * ROW_LEN + j]

\* several waveforms extracted and a partial chunk dropped
C7_Witness ==
    /\ Parsed
    /\ Len(waveforms) >= 2
    /\ Len(file.values) % PPG_SAMPLES /= 0
    /\ waveforms[1] /= waveforms[2]

C9_GuardAppended ==
    (Vapo2 /\ cur /= Null) =>
       LET w == cur.processed
           T == Len(w)
           out == cur.with_guard
       IN num_guard <= T =>
             /\ Len(out) = T + num_guard
             /\ \A k \in 1..T : out[k] = w[k]
             /\ \A g \in 1..num_guard : out[T + g] = w[g]

\* a wave whose guard differs from the samples that precede it
C9_Witness ==
    /\ Vapo2 /\ cur /= Null
    /\ num_guard >= 2
    /\ Len(cur.with_guard) > Len(cur.processed)
    /\ cur.processed[1] /= cur.processed[2]
    /\ cur.processed[1] /= cur.processed[Len(cur.processed)]

\* C10: the constants of the written header describe the written data:
\* WT_TABLE_SIZE is the number of period samples of every wave array,
\* WT_SAMPLES_PER_WAVE is TARGET_SAMPLES + GUARD_SAMPLES and the length of
\* every wave array, WT_WAVES_PER_BANK is the number of waves of every bank,
\* WT_NUM_BANKS is the number of banks.
C10_HeaderConstantsMatchData ==
    (Vapo2 /\ pc = "done") =>
       LET head == Written("header")[1].body
           built == Written("section")
       IN /\ head.num_banks = Len(built)
          /\ \A b \in 1..Len(built) :
                /\ head.waves_per_bank = Len(built[b].body.waves)
                /\ \A k \in 1..Len(built[b].body.waves) :
                      LET samples == built[b].body.waves[k].samples
                      IN /\ head.samples_per_wave = target_samples + num_guard
                         /\ head.samples_per_wave = Len(samples)
                         /\ head.table_size = Len(samples) - num_guard
                         /\ head.table_size = target_samples

\* two floats are the same number
SameValue(a, b) == a.num * b.den = b.num * a.den

\* C11: for a converted waveform of length L and a target T > L,
\* interpolate_wave returns T samples; sample i is the interpolant at phase
\* i/T, which lies inside the fitted range of knots (so a phase on a knot
\* gives that knot's sample); the interpolant is fitted over the input
\* followed by its own leading samples, so phase 1 is a knot carrying input
\* sample 0 and the interpolant has the same value at phase 1 as at phase 0.
C11_InterpolantPeriodic ==
    (Vapo2 /\ cur /= Null) =>
       LET w == cur.signed16
           L == Len(w)
           T == target_samples
           x == cur.x_extended
           y == cur.wave_extended
       IN T > L =>
             /\ Len(cur.interpolated) = T
             /\ Len(x) = Len(y)
             /\ \A k \in 1..(Len(x) - 1) : x[k] < x[k + 1]
             /\ \A i \in 0..(T - 1) :
                   /\ x[1] * T <= i * L
                   /\ i * L <= x[Len(x)] * T
                   /\ (i * L) % T = 0 =>
                         SameValue(cur.interpolated[i + 1], Frac(w[((i * L) \div T) + 1]))
             /\ x[1] = 0
             /\ x[L + 1] = L
             /\ y[1] = w[1]
             /\ y[L + 1] = w[1]
             /\ SameValue(interp1d_at(y, L, T, T), Frac(w[1]))
             /\ SameValue(interp1d_at(y, L, T, T), cur.interpolated[1])

\* a wave whose last sample differs from its first and from the samples
\* that follow the first
C11_Witness ==
    /\ Vapo2 /\ cur /= Null
    /\ target_samples > Len(cur.signed16)
    /\ Len(cur.interpolated) = target_samples
    /\ cur.signed16[1] /= cur.signed16[Len(cur.signed16)]
    /\ cur.signed16[1] /= cur.signed16[Len(cur.signed16) - 3]
    /\ cur.wave_extended[Len(cur.signed16) + 1] = cur.signed16[1]

\* the integration mode is on and a wave has been integrated
Integrated == Vapo2 /\ integrate /\ cur /= Null

\* C12 as stated: the subtracted ramp runs from the first cumulative value
\* to the last one, so the drift-removed sequence is zero at its first and
\* at its last index.
C12_RampFromFirstCumulative ==
    Integrated =>
       LET n == Len(cur.integral.cumsum)
       IN /\ cur.integral.dc_ramp[1] = cur.integral.cumsum[1]
          /\ cur.integral.dc_ramp[n] = cur.integral.cumsum[n]
          /\ cur.integral.detrended[1] = Zero
          /\ cur.integral.detrended[n] = Zero

\* C12: the subtracted ramp runs from 0 at index 0 to the last cumulative
\* value at index n-1, so the drift-removed sequence keeps the first input
\* sample at its first index and is zero at its last index.
C12_RampFromZero ==
    Integrated =>
       LET n == Len(cur.integral.cumsum)
       IN /\ n = Len(cur.interpolated)
          /\ Len(cur.integral.dc_ramp) = n
          /\ Len(cur.integral.detrended) = n
          /\ cur.integral.cumsum[1] = to_mixed(cur.interpolated[1])
          /\ cur.integral.dc_ramp[1] = Zero
          /\ cur.integral.dc_ramp[n] = cur.integral.cumsum[n]
          /\ cur.integral.detrended[1] = to_mixed(cur.interpolated[1])
          /\ cur.integral.detrended[n] = Zero

\* an integrated wave whose first sample and whose sum are not zero
C12_Witness ==
    /\ Integrated
    /\ cur.integral.cumsum[1] /= Zero
    /\ cur.integral.cumsum[Len(cur.integral.cumsum)] /= Zero
    /\ cur.integral.detrended[1] = cur.integral.cumsum[1]
    /\ cur.integral.detrended[Len(cur.integral.cumsum)] = Zero

====
